---- MODULE Spec2Model ----
(***************************************************************************)
(* ShadowPool: the sealed-order dark pool contract (order ledger, pending  *)
(* pool, match trigger, decryption callback with matching and settlement). *)
(*                                                                         *)
(* A transaction that reverts leaves the contract's storage and the token  *)
(* balances untouched, so a reverting call is no step of the contract; the *)
(* revert reason of each entry point is an operator (submitRevert,         *)
(* cancelRevert, triggerRevert) and the action's guard is "no revert".     *)
(* The one reverting call that is still a step is the oracle's callback:   *)
(* the oracle delivers it once, and a reverted delivery is gone.           *)
(*                                                                         *)
(* Array indices are the source's plus one (TLA+ sequences start at 1);    *)
(* order ids and settlement ids are the source's (they start at 0).        *)
(***************************************************************************)
EXTENDS Integers, Sequences, FiniteSets, TLC

(***************************************************************************)
(* Bounds of the model.                                                    *)
(***************************************************************************)
\* traders are the addresses 1..NumTraders; 0 is address(0)
NumTraders == 2
\* submits accepted in a behaviour (nextOrderId never exceeds it)
MaxOrders == 3
\* decrypted prices are 1..MaxPrice
MaxPrice == 2
\* decrypted quantities are at most MaxAmount
MaxAmount == 2
\* deposits are 1..MaxDeposit
MaxDeposit == 2
\* accepted triggers in a behaviour (nextSettlementId never exceeds it)
MaxRounds == 2
\* cancels accepted in a behaviour
MaxCancels == 1
\* submits accepted in a behaviour of SpecDeep and of SpecReplay
MaxOrdersDeep == 5
\* submits accepted in a behaviour of SpecFull: one more than a round takes
MaxOrdersFull == 11
\* accepted triggers in a behaviour of SpecFull
MaxRoundsFull == 1
\* submits accepted in a behaviour of SpecZero
MaxOrdersZero == 4
\* PRICE_PRECISION * DECIMAL_SCALE (1e6 * 1e12 in the source), scaled down
\* so that quantity * price stays small and the division still truncates
PriceScale == 2

(***************************************************************************)
(* Program constants.                                                      *)
(***************************************************************************)
MAX_ORDERS_PER_MATCH == 10

Traders == 1..NumTraders
Prices == 1..MaxPrice
Amounts == 1..MaxAmount
Deposits == 1..MaxDeposit

\* the ciphertext of abi.encode(price, amount); the empty payload is <<>>
Sealed(price, amount) == <<"sealed", price, amount>>
EmptyPayload == <<>>
\* what the threshold decryption hands to onDecrypt for a payload
Decrypt(payload) == [price |-> payload[2], amount |-> payload[3]]

VARIABLES
    nextOrderId,          \* uint256 public nextOrderId
    orders,               \* mapping(uint256 => Order), the ids below nextOrderId
    pendingBuyOrderIds,   \* uint256[] public pendingBuyOrderIds
    pendingSellOrderIds,  \* uint256[] public pendingSellOrderIds
    nextSettlementId,     \* uint256 public nextSettlementId
    settlements,          \* mapping(uint256 => Settlement), the ids written
    totalPendingBuys,
    totalPendingSells,
    totalBuyDeposits,
    totalSellDeposits,
    isMatching,
    custodyQuote,         \* quoteToken.balanceOf(address(this))
    custodyBase,          \* baseToken.balanceOf(address(this))
    ctx,                  \* the conditional transactions submitted and not yet called back
    settled,              \* the conditional transactions whose callback completed
    transfers             \* the token transfers out of custody made by the last call

contractVars == <<nextOrderId, orders, pendingBuyOrderIds, pendingSellOrderIds,
                  nextSettlementId, settlements, totalPendingBuys, totalPendingSells,
                  totalBuyDeposits, totalSellDeposits, isMatching, custodyQuote,
                  custodyBase>>

vars == <<nextOrderId, orders, pendingBuyOrderIds, pendingSellOrderIds,
          nextSettlementId, settlements, totalPendingBuys, totalPendingSells,
          totalBuyDeposits, totalSellDeposits, isMatching, custodyQuote,
          custodyBase, ctx, settled, transfers>>

OrderIds == 0..(nextOrderId - 1)

\* the ids of a pending array, as a set
Ids(arr) == {arr[i] : i \in 1..Len(arr)}

Init ==
    /\ nextOrderId = 0
    /\ orders = <<>>
    /\ pendingBuyOrderIds = <<>>
    /\ pendingSellOrderIds = <<>>
    /\ nextSettlementId = 0
    /\ settlements = <<>>
    /\ totalPendingBuys = 0
    /\ totalPendingSells = 0
    /\ totalBuyDeposits = 0
    /\ totalSellDeposits = 0
    /\ isMatching = FALSE
    /\ custodyQuote = 0
    /\ custodyBase = 0
    /\ ctx = {}
    /\ settled = {}
    /\ transfers = <<>>

(***************************************************************************)
(* Order submission.                                                       *)
(***************************************************************************)
\* submitRevert with the two tests in the other order
submitRevertDepositFirst(_encryptedOrder, _deposit) ==
    IF _deposit = 0 THEN "InvalidDeposit"
    ELSE IF Len(_encryptedOrder) = 0 THEN "InvalidEncryptedOrder"
    ELSE ""

\* the custom error a submit reverts with, "" when it goes through
submitRevert(_encryptedOrder, _deposit) ==
    IF Len(_encryptedOrder) = 0 THEN "InvalidEncryptedOrder"
    ELSE IF _deposit = 0 THEN "InvalidDeposit"
    ELSE ""

NewOrder(sender, isBuy, _encryptedOrder, _deposit) ==
    [trader |-> sender, isBuy |-> isBuy, deposit |-> _deposit,
     encryptedOrder |-> _encryptedOrder, status |-> "PENDING",
     settledPrice |-> 0, settledAmount |-> 0]

\* PutOrder writing the new order over the record of order 0 as well
PutOrderOverFirst(orderId, o) ==
    [id \in OrderIds \cup {orderId} |-> IF id = orderId \/ id = 0 THEN o ELSE orders[id]]

\* orders[orderId] = o, for a fresh orderId
PutOrder(orderId, o) ==
    [id \in OrderIds \cup {orderId} |-> IF id = orderId THEN o ELSE orders[id]]

submitBuyOrder(sender, _encryptedOrder, _deposit) ==
    /\ submitRevert(_encryptedOrder, _deposit) = ""
    /\ custodyQuote' = custodyQuote + _deposit
    /\ nextOrderId' = nextOrderId + 1
    /\ orders' = PutOrder(nextOrderId, NewOrder(sender, TRUE, _encryptedOrder, _deposit))
    /\ pendingBuyOrderIds' = Append(pendingBuyOrderIds, nextOrderId)
    /\ totalPendingBuys' = totalPendingBuys + 1
    /\ totalBuyDeposits' = totalBuyDeposits + _deposit
    /\ transfers' = <<>>
    /\ UNCHANGED <<pendingSellOrderIds, nextSettlementId, settlements,
                   totalPendingSells, totalSellDeposits, isMatching, custodyBase,
                   ctx, settled>>

\* submitSellOrder taking the deposit as quote tokens, into the buy total
submitSellOrderAsQuote(sender, _encryptedOrder, _deposit) ==
    /\ submitRevert(_encryptedOrder, _deposit) = ""
    /\ custodyQuote' = custodyQuote + _deposit
    /\ nextOrderId' = nextOrderId + 1
    /\ orders' = PutOrder(nextOrderId, NewOrder(sender, FALSE, _encryptedOrder, _deposit))
    /\ pendingSellOrderIds' = Append(pendingSellOrderIds, nextOrderId)
    /\ totalPendingSells' = totalPendingSells + 1
    /\ totalBuyDeposits' = totalBuyDeposits + _deposit
    /\ transfers' = <<>>
    /\ UNCHANGED <<pendingBuyOrderIds, nextSettlementId, settlements,
                   totalPendingBuys, totalSellDeposits, isMatching, custodyBase,
                   ctx, settled>>

submitSellOrder(sender, _encryptedOrder, _deposit) ==
    /\ submitRevert(_encryptedOrder, _deposit) = ""
    /\ custodyBase' = custodyBase + _deposit
    /\ nextOrderId' = nextOrderId + 1
    /\ orders' = PutOrder(nextOrderId, NewOrder(sender, FALSE, _encryptedOrder, _deposit))
    /\ pendingSellOrderIds' = Append(pendingSellOrderIds, nextOrderId)
    /\ totalPendingSells' = totalPendingSells + 1
    /\ totalSellDeposits' = totalSellDeposits + _deposit
    /\ transfers' = <<>>
    /\ UNCHANGED <<pendingBuyOrderIds, nextSettlementId, settlements,
                   totalPendingBuys, totalBuyDeposits, isMatching, custodyQuote,
                   ctx, settled>>

(***************************************************************************)
(* Cancellation.                                                           *)
(***************************************************************************)
\* _removePendingOrder popping the last entry, whatever it is
_removePendingOrderPop(arr, orderId) ==
    IF \E i \in 1..Len(arr) : arr[i] = orderId
    THEN SubSeq(arr, 1, Len(arr) - 1)
    ELSE arr

\* swap-with-last-and-pop of the first entry equal to orderId; arr as it is
\* when orderId is not in it
_removePendingOrder(arr, orderId) ==
    IF \E i \in 1..Len(arr) : arr[i] = orderId
    THEN LET i == CHOOSE k \in 1..Len(arr) :
                      arr[k] = orderId /\ \A l \in 1..(k - 1) : arr[l] # orderId
         IN  SubSeq([arr EXCEPT ![i] = arr[Len(arr)]], 1, Len(arr) - 1)
    ELSE arr

\* cancelRevert without the test of the status
cancelRevertAnyStatus(sender, _orderId) ==
    IF _orderId \notin OrderIds THEN "OrderNotFound"
    ELSE IF orders[_orderId].trader # sender THEN "NotOrderOwner"
    ELSE IF orders[_orderId].isBuy
    THEN IF custodyQuote < orders[_orderId].deposit THEN "ERC20InsufficientBalance"
         ELSE IF totalPendingBuys = 0 \/ totalBuyDeposits < orders[_orderId].deposit
         THEN "Panic"
         ELSE ""
    ELSE IF custodyBase < orders[_orderId].deposit THEN "ERC20InsufficientBalance"
         ELSE IF totalPendingSells = 0 \/ totalSellDeposits < orders[_orderId].deposit
         THEN "Panic"
         ELSE ""

\* cancelRevert testing the status before the owner
cancelRevertStatusFirst(sender, _orderId) ==
    IF _orderId \notin OrderIds THEN "OrderNotFound"
    ELSE IF orders[_orderId].status # "PENDING" THEN "OrderNotPending"
    ELSE IF orders[_orderId].trader # sender THEN "NotOrderOwner"
    ELSE IF orders[_orderId].isBuy
    THEN IF custodyQuote < orders[_orderId].deposit THEN "ERC20InsufficientBalance"
         ELSE IF totalPendingBuys = 0 \/ totalBuyDeposits < orders[_orderId].deposit
         THEN "Panic"
         ELSE ""
    ELSE IF custodyBase < orders[_orderId].deposit THEN "ERC20InsufficientBalance"
         ELSE IF totalPendingSells = 0 \/ totalSellDeposits < orders[_orderId].deposit
         THEN "Panic"
         ELSE ""

\* what a cancel reverts with, "" when it goes through: the three custom
\* errors in the order the code tests them, then the token's refusal of a
\* transfer custody cannot cover and the checked-arithmetic panic of a
\* counter that would go below zero
cancelRevert(sender, _orderId) ==
    IF _orderId \notin OrderIds THEN "OrderNotFound"
    ELSE IF orders[_orderId].trader # sender THEN "NotOrderOwner"
    ELSE IF orders[_orderId].status # "PENDING" THEN "OrderNotPending"
    ELSE IF orders[_orderId].isBuy
    THEN IF custodyQuote < orders[_orderId].deposit THEN "ERC20InsufficientBalance"
         ELSE IF totalPendingBuys = 0 \/ totalBuyDeposits < orders[_orderId].deposit
         THEN "Panic"
         ELSE ""
    ELSE IF custodyBase < orders[_orderId].deposit THEN "ERC20InsufficientBalance"
         ELSE IF totalPendingSells = 0 \/ totalSellDeposits < orders[_orderId].deposit
         THEN "Panic"
         ELSE ""

\* one transfer out of custody, as the log keeps it: the token, the
\* receiver, the amount, the order whose deposit asset is paid out and why
Xfer(token, to, amount, orderId, why) ==
    [token |-> token, to |-> to, amount |-> amount, order |-> orderId, why |-> why]

\* cancelOrder ending the round in flight
cancelOrderClearsFlag(sender, _orderId) ==
    /\ cancelRevert(sender, _orderId) = ""
    /\ orders' = [orders EXCEPT ![_orderId].status = "CANCELLED"]
    /\ IF orders[_orderId].isBuy
       THEN /\ custodyQuote' = custodyQuote - orders[_orderId].deposit
            /\ totalPendingBuys' = totalPendingBuys - 1
            /\ totalBuyDeposits' = totalBuyDeposits - orders[_orderId].deposit
            /\ pendingBuyOrderIds' = _removePendingOrder(pendingBuyOrderIds, _orderId)
            /\ transfers' = <<Xfer("quote", sender, orders[_orderId].deposit,
                                   _orderId, "cancel")>>
            /\ UNCHANGED <<custodyBase, totalPendingSells, totalSellDeposits,
                           pendingSellOrderIds>>
       ELSE /\ custodyBase' = custodyBase - orders[_orderId].deposit
            /\ totalPendingSells' = totalPendingSells - 1
            /\ totalSellDeposits' = totalSellDeposits - orders[_orderId].deposit
            /\ pendingSellOrderIds' = _removePendingOrder(pendingSellOrderIds, _orderId)
            /\ transfers' = <<Xfer("base", sender, orders[_orderId].deposit,
                                   _orderId, "cancel")>>
            /\ UNCHANGED <<custodyQuote, totalPendingBuys, totalBuyDeposits,
                           pendingBuyOrderIds>>
    /\ isMatching' = FALSE
    /\ UNCHANGED <<nextOrderId, nextSettlementId, settlements, ctx, settled>>

cancelOrder(sender, _orderId) ==
    /\ cancelRevert(sender, _orderId) = ""
    /\ orders' = [orders EXCEPT ![_orderId].status = "CANCELLED"]
    /\ IF orders[_orderId].isBuy
       THEN /\ custodyQuote' = custodyQuote - orders[_orderId].deposit
            /\ totalPendingBuys' = totalPendingBuys - 1
            /\ totalBuyDeposits' = totalBuyDeposits - orders[_orderId].deposit
            /\ pendingBuyOrderIds' = _removePendingOrder(pendingBuyOrderIds, _orderId)
            /\ transfers' = <<Xfer("quote", sender, orders[_orderId].deposit,
                                   _orderId, "cancel")>>
            /\ UNCHANGED <<custodyBase, totalPendingSells, totalSellDeposits,
                           pendingSellOrderIds>>
       ELSE /\ custodyBase' = custodyBase - orders[_orderId].deposit
            /\ totalPendingSells' = totalPendingSells - 1
            /\ totalSellDeposits' = totalSellDeposits - orders[_orderId].deposit
            /\ pendingSellOrderIds' = _removePendingOrder(pendingSellOrderIds, _orderId)
            /\ transfers' = <<Xfer("base", sender, orders[_orderId].deposit,
                                   _orderId, "cancel")>>
            /\ UNCHANGED <<custodyQuote, totalPendingBuys, totalBuyDeposits,
                           pendingBuyOrderIds>>
    /\ UNCHANGED <<nextOrderId, nextSettlementId, settlements, isMatching, ctx, settled>>

(***************************************************************************)
(* Match trigger.                                                          *)
(***************************************************************************)
\* triggerRevert without the test of isMatching
triggerRevertNoFlag(paid) ==
    IF ~paid THEN "InsufficientCTXPayment"
    ELSE IF Len(pendingBuyOrderIds) = 0 \/ Len(pendingSellOrderIds) = 0
    THEN "NoPendingOrders"
    ELSE IF Len(pendingBuyOrderIds) + Len(pendingSellOrderIds) > MAX_ORDERS_PER_MATCH
    THEN "TooManyOrders"
    ELSE ""

\* triggerRevert refusing a pool of exactly MAX_ORDERS_PER_MATCH orders
triggerRevertAtLimit(paid) ==
    IF isMatching THEN "AlreadyMatching"
    ELSE IF ~paid THEN "InsufficientCTXPayment"
    ELSE IF Len(pendingBuyOrderIds) = 0 \/ Len(pendingSellOrderIds) = 0
    THEN "NoPendingOrders"
    ELSE IF Len(pendingBuyOrderIds) + Len(pendingSellOrderIds) >= MAX_ORDERS_PER_MATCH
    THEN "TooManyOrders"
    ELSE ""

\* what a trigger reverts with, "" when it goes through; paid says that
\* msg.value covers CTX_GAS_PAYMENT
triggerRevert(paid) ==
    IF isMatching THEN "AlreadyMatching"
    ELSE IF ~paid THEN "InsufficientCTXPayment"
    ELSE IF Len(pendingBuyOrderIds) = 0 \/ Len(pendingSellOrderIds) = 0
    THEN "NoPendingOrders"
    ELSE IF Len(pendingBuyOrderIds) + Len(pendingSellOrderIds) > MAX_ORDERS_PER_MATCH
    THEN "TooManyOrders"
    ELSE ""

\* the conditional transaction handed to BITE.submitCTX: the payloads of the
\* pending buys then of the pending sells, and the three plaintext arguments.
\* buyIds and sellIds are no part of the message: they record which orders
\* the payloads were read from, for the statements about the snapshot.
NewCTX ==
    [encryptedArgs |->
         [i \in 1..(Len(pendingBuyOrderIds) + Len(pendingSellOrderIds)) |->
             IF i <= Len(pendingBuyOrderIds)
             THEN orders[pendingBuyOrderIds[i]].encryptedOrder
             ELSE orders[pendingSellOrderIds[i - Len(pendingBuyOrderIds)]].encryptedOrder],
     buyCount |-> Len(pendingBuyOrderIds),
     sellCount |-> Len(pendingSellOrderIds),
     settlementId |-> nextSettlementId,
     buyIds |-> pendingBuyOrderIds,
     sellIds |-> pendingSellOrderIds]

triggerMatch(paid) ==
    /\ triggerRevert(paid) = ""
    /\ isMatching' = TRUE
    /\ ctx' = ctx \cup {NewCTX}
    /\ nextSettlementId' = nextSettlementId + 1
    /\ transfers' = <<>>
    /\ UNCHANGED <<nextOrderId, orders, pendingBuyOrderIds, pendingSellOrderIds,
                   settlements, totalPendingBuys, totalPendingSells,
                   totalBuyDeposits, totalSellDeposits, custodyQuote, custodyBase,
                   settled>>

(***************************************************************************)
(* The decryption callback: sorting, matching, settlement.                 *)
(*                                                                         *)
(* The callback works on a record m: the storage and balances it writes    *)
(* (orders, the two pending arrays, custody), its memory arrays and        *)
(* locals, the log of its transfers, and ok, which turns FALSE at the      *)
(* statement that reverts (an index out of range, a transfer custody       *)
(* cannot cover) and stops everything after it.                            *)
(***************************************************************************)
Min(a, b) == IF a < b THEN a ELSE b

\* the while loop of _sortDescending shifting entries of equal price as well
RECURSIVE ShiftDescendingOrEqual(_, _, _)
ShiftDescendingOrEqual(r, j, keyPrice) ==
    IF j > 1 /\ r.prices[j - 1] <= keyPrice
    THEN ShiftDescendingOrEqual([r EXCEPT !.prices[j] = r.prices[j - 1],
                                          !.amounts[j] = r.amounts[j - 1],
                                          !.ids[j] = r.ids[j - 1]], j - 1, keyPrice)
    ELSE [r |-> r, j |-> j]

\* the while loop of _sortDescending: shift the entries before j whose price
\* is below keyPrice one place up; r holds the three arrays
RECURSIVE ShiftDescending(_, _, _)
ShiftDescending(r, j, keyPrice) ==
    IF j > 1 /\ r.prices[j - 1] < keyPrice
    THEN ShiftDescending([r EXCEPT !.prices[j] = r.prices[j - 1],
                                   !.amounts[j] = r.amounts[j - 1],
                                   !.ids[j] = r.ids[j - 1]], j - 1, keyPrice)
    ELSE [r |-> r, j |-> j]

\* the while loop of _sortAscending
RECURSIVE ShiftAscending(_, _, _)
ShiftAscending(r, j, keyPrice) ==
    IF j > 1 /\ r.prices[j - 1] > keyPrice
    THEN ShiftAscending([r EXCEPT !.prices[j] = r.prices[j - 1],
                                  !.amounts[j] = r.amounts[j - 1],
                                  !.ids[j] = r.ids[j - 1]], j - 1, keyPrice)
    ELSE [r |-> r, j |-> j]

\* InsertKey leaving the quantities where the while loop shifted them
InsertKeyKeepsAmount(r, i, s) ==
    [s.r EXCEPT !.prices[s.j] = r.prices[i],
                !.ids[s.j] = r.ids[i]]

\* the insertion of entry i of an insertion sort whose while loop left the
\* arrays and the place j in s; a read of ids[i] beyond the array reverts
InsertKey(r, i, s) ==
    [s.r EXCEPT !.prices[s.j] = r.prices[i],
                !.amounts[s.j] = r.amounts[i],
                !.ids[s.j] = r.ids[i]]

RECURSIVE SortDescendingFrom(_, _, _)
SortDescendingFrom(r, i, len) ==
    IF ~r.ok \/ i > len THEN r
    ELSE IF i > Len(r.ids) THEN [r EXCEPT !.ok = FALSE]
    ELSE SortDescendingFrom(InsertKey(r, i, ShiftDescending(r, i, r.prices[i])),
                            i + 1, len)

RECURSIVE SortAscendingFrom(_, _, _)
SortAscendingFrom(r, i, len) ==
    IF ~r.ok \/ i > len THEN r
    ELSE IF i > Len(r.ids) THEN [r EXCEPT !.ok = FALSE]
    ELSE SortAscendingFrom(InsertKey(r, i, ShiftAscending(r, i, r.prices[i])),
                           i + 1, len)

\* insertion sort of the first len entries, by price descending, of the
\* storage array ids and the memory arrays prices and amounts, in lockstep
_sortDescending(ids, prices, amounts, len) ==
    SortDescendingFrom([ok |-> TRUE, ids |-> ids, prices |-> prices,
                        amounts |-> amounts], 2, len)

\* the same by price ascending
_sortAscending(ids, prices, amounts, len) ==
    SortAscendingFrom([ok |-> TRUE, ids |-> ids, prices |-> prices,
                       amounts |-> amounts], 2, len)

\* token.safeTransfer(to, amount) out of custody
safeTransfer(m, token, to, amount, orderId, why) ==
    IF ~m.ok THEN m
    ELSE IF token = "quote"
    THEN IF m.custodyQuote < amount THEN [m EXCEPT !.ok = FALSE]
         ELSE [m EXCEPT !.custodyQuote = @ - amount,
                        !.log = Append(@, Xfer(token, to, amount, orderId, why))]
    ELSE IF m.custodyBase < amount THEN [m EXCEPT !.ok = FALSE]
         ELSE [m EXCEPT !.custodyBase = @ - amount,
                        !.log = Append(@, Xfer(token, to, amount, orderId, why))]

\* the quote cost rounded up instead of down
CostRoundedUp(matchAmount, clearingPrice) ==
    (matchAmount * clearingPrice + PriceScale - 1) \div PriceScale

\* the quote cost of matchAmount base units at clearingPrice
Cost(matchAmount, clearingPrice) == (matchAmount * clearingPrice) \div PriceScale

\* matchedIds[matchedCount++] = id, on a memory array of capacity cap
PushMatched(m, id, cap) ==
    IF ~m.ok THEN m
    ELSE IF Len(m.matchedIds) >= cap THEN [m EXCEPT !.ok = FALSE]
    ELSE [m EXCEPT !.matchedIds = Append(@, id)]

\* FillOrders marking an order with quantity left PARTIALLY_MATCHED
FillOrdersPartial(m, buyOrderId, sellOrderId, clearingPrice, matchAmount) ==
    IF ~m.ok THEN m
    ELSE [m EXCEPT !.orders[buyOrderId].settledPrice = clearingPrice,
                   !.orders[buyOrderId].settledAmount = matchAmount,
                   !.orders[buyOrderId].status =
                       IF m.buyAmounts[m.bi + 1] > matchAmount
                       THEN "PARTIALLY_MATCHED" ELSE "MATCHED",
                   !.orders[sellOrderId].settledPrice = clearingPrice,
                   !.orders[sellOrderId].settledAmount = matchAmount,
                   !.orders[sellOrderId].status =
                       IF m.sellAmounts[m.si + 1] > matchAmount
                       THEN "PARTIALLY_MATCHED" ELSE "MATCHED"]

\* the order records of a trade's two orders
FillOrders(m, buyOrderId, sellOrderId, clearingPrice, matchAmount) ==
    IF ~m.ok THEN m
    ELSE [m EXCEPT !.orders[buyOrderId].settledPrice = clearingPrice,
                   !.orders[buyOrderId].settledAmount = matchAmount,
                   !.orders[buyOrderId].status = "MATCHED",
                   !.orders[sellOrderId].settledPrice = clearingPrice,
                   !.orders[sellOrderId].settledAmount = matchAmount,
                   !.orders[sellOrderId].status = "MATCHED"]

\* RefundExcess paying the seller's excess only
RefundExcessSellerOnly(m, buyOrderId, sellOrderId, cost, matchAmount) ==
    LET sellOrder == m.orders[sellOrderId]
    IN  IF sellOrder.deposit > matchAmount
        THEN safeTransfer(m, "base", sellOrder.trader, sellOrder.deposit - matchAmount,
                          sellOrderId, "excess")
        ELSE m

\* the refunds of what a trade left of the two deposits
RefundExcess(m, buyOrderId, sellOrderId, cost, matchAmount) ==
    LET buyOrder == m.orders[buyOrderId]
        sellOrder == m.orders[sellOrderId]
        m1 == IF buyOrder.deposit > cost
              THEN safeTransfer(m, "quote", buyOrder.trader, buyOrder.deposit - cost,
                                buyOrderId, "excess")
              ELSE m
    IN  IF sellOrder.deposit > matchAmount
        THEN safeTransfer(m1, "base", sellOrder.trader, sellOrder.deposit - matchAmount,
                          sellOrderId, "excess")
        ELSE m1

\* Consume leaving the two pointers where they are
ConsumeNoAdvance(m, matchAmount) ==
    IF ~m.ok THEN m
    ELSE [m EXCEPT !.buyAmounts[m.bi + 1] = @ - matchAmount,
                   !.sellAmounts[m.si + 1] = @ - matchAmount,
                   !.totalMatchedVolume = @ + matchAmount,
                   !.totalTrades = @ + 1]

\* the amounts consumed and the pointers advanced
Consume(m, matchAmount) ==
    IF ~m.ok THEN m
    ELSE LET b == m.buyAmounts[m.bi + 1] - matchAmount
             s == m.sellAmounts[m.si + 1] - matchAmount
         IN  [m EXCEPT !.buyAmounts[m.bi + 1] = b,
                       !.sellAmounts[m.si + 1] = s,
                       !.totalMatchedVolume = @ + matchAmount,
                       !.totalTrades = @ + 1,
                       !.bi = IF b = 0 THEN @ + 1 ELSE @,
                       !.si = IF s = 0 THEN @ + 1 ELSE @]

\* the two OrderFilled events of a trade, kept as one entry of the callback's
\* list of trades: the two order ids, the clearing price and the quantity
EmitFilled(m, buyOrderId, sellOrderId, matchAmount) ==
    IF ~m.ok THEN m
    ELSE [m EXCEPT !.trades = Append(@, [buy |-> buyOrderId, sell |-> sellOrderId,
                                         clearingPrice |-> m.clearingPrice,
                                         matchAmount |-> matchAmount])]

\* one trade of the matching loop: the body after the matchAmount == 0 test
Trade(m, matchAmount, cap) ==
    IF m.bi + 1 > Len(m.buyIds) \/ m.si + 1 > Len(m.sellIds)
    THEN [m EXCEPT !.ok = FALSE]
    ELSE LET buyOrderId == m.buyIds[m.bi + 1]
             sellOrderId == m.sellIds[m.si + 1]
             cost == Cost(matchAmount, m.clearingPrice)
             m1 == safeTransfer(m, "base", m.orders[buyOrderId].trader, matchAmount,
                                sellOrderId, "fill")
             m2 == safeTransfer(m1, "quote", m.orders[sellOrderId].trader, cost,
                                buyOrderId, "fill")
             m3 == FillOrders(m2, buyOrderId, sellOrderId, m.clearingPrice, matchAmount)
             m4 == RefundExcess(m3, buyOrderId, sellOrderId, cost, matchAmount)
             m5 == PushMatched(PushMatched(m4, buyOrderId, cap), sellOrderId, cap)
             m6 == EmitFilled(m5, buyOrderId, sellOrderId, matchAmount)
         IN  Consume(m6, matchAmount)

\* what an iteration of the matching loop reads at the two pointers
AtPointers(m) ==
    [bi |-> m.bi, si |-> m.si,
     buyPrice |-> m.buyPrices[m.bi + 1], sellPrice |-> m.sellPrices[m.si + 1],
     buyAmount |-> m.buyAmounts[m.bi + 1], sellAmount |-> m.sellAmounts[m.si + 1]]

\* the matching loop without the test of the two prices
RECURSIVE MatchLoopAnyPrice(_, _, _)
MatchLoopAnyPrice(m, buyCount, sellCount) ==
    IF ~m.ok \/ ~(m.bi < buyCount /\ m.si < sellCount) THEN m
    ELSE LET clearingPrice == (m.buyPrices[m.bi + 1] + m.sellPrices[m.si + 1]) \div 2
             matchAmount == Min(m.buyAmounts[m.bi + 1], m.sellAmounts[m.si + 1])
             m1 == [m EXCEPT !.clearingPrice = clearingPrice]
         IN  IF matchAmount = 0
             THEN MatchLoopAnyPrice([m1 EXCEPT !.bi = @ + 1, !.si = @ + 1],
                                    buyCount, sellCount)
             ELSE MatchLoopAnyPrice(Trade(m1, matchAmount, buyCount + sellCount),
                                    buyCount, sellCount)

\* the matching loop clearing every trade at the buy price
RECURSIVE MatchLoopBuyPrice(_, _, _)
MatchLoopBuyPrice(m, buyCount, sellCount) ==
    IF ~m.ok \/ ~(m.bi < buyCount /\ m.si < sellCount) THEN m
    ELSE IF m.buyPrices[m.bi + 1] < m.sellPrices[m.si + 1]
    THEN [m EXCEPT !.path = Append(@, AtPointers(m))]
    ELSE LET clearingPrice == m.buyPrices[m.bi + 1]
             matchAmount == Min(m.buyAmounts[m.bi + 1], m.sellAmounts[m.si + 1])
             m1 == [m EXCEPT !.clearingPrice = clearingPrice,
                             !.path = Append(@, AtPointers(m))]
         IN  IF matchAmount = 0
             THEN MatchLoopBuyPrice([m1 EXCEPT !.bi = @ + 1, !.si = @ + 1],
                                    buyCount, sellCount)
             ELSE MatchLoopBuyPrice(Trade(m1, matchAmount, buyCount + sellCount),
                                    buyCount, sellCount)

\* the matching loop; path keeps what every iteration of its body read at
\* the two pointers
RECURSIVE MatchLoop(_, _, _)
MatchLoop(m, buyCount, sellCount) ==
    IF ~m.ok \/ ~(m.bi < buyCount /\ m.si < sellCount) THEN m
    ELSE IF m.buyPrices[m.bi + 1] < m.sellPrices[m.si + 1]
    THEN [m EXCEPT !.path = Append(@, AtPointers(m))]
    ELSE LET clearingPrice == (m.buyPrices[m.bi + 1] + m.sellPrices[m.si + 1]) \div 2
             matchAmount == Min(m.buyAmounts[m.bi + 1], m.sellAmounts[m.si + 1])
             m1 == [m EXCEPT !.clearingPrice = clearingPrice,
                             !.path = Append(@, AtPointers(m))]
         IN  IF matchAmount = 0
             THEN MatchLoop([m1 EXCEPT !.bi = @ + 1, !.si = @ + 1], buyCount, sellCount)
             ELSE MatchLoop(Trade(m1, matchAmount, buyCount + sellCount),
                            buyCount, sellCount)

\* RefundOne without the test of the status
RefundOneAnyStatus(m, ids, i, token) ==
    IF i + 1 > Len(ids) THEN [m EXCEPT !.ok = FALSE]
    ELSE LET oid == ids[i + 1]
             o == m.orders[oid]
         IN  safeTransfer([m EXCEPT !.orders[oid].status = "REFUNDED"],
                          token, o.trader, o.deposit, oid, "refund")

\* the refund of entry i (the source's index) of a pending array
RefundOne(m, ids, i, token) ==
    IF i + 1 > Len(ids) THEN [m EXCEPT !.ok = FALSE]
    ELSE LET oid == ids[i + 1]
             o == m.orders[oid]
         IN  IF o.status = "PENDING"
             THEN safeTransfer([m EXCEPT !.orders[oid].status = "REFUNDED"],
                               token, o.trader, o.deposit, oid, "refund")
             ELSE m

\* the refund loop over the unmatched buys, from the source's index i
RECURSIVE RefundBuys(_, _, _)
RefundBuys(m, i, buyCount) ==
    IF ~m.ok \/ i >= buyCount THEN m
    ELSE RefundBuys(RefundOne(m, m.buyIds, i, "quote"), i + 1, buyCount)

\* the refund loop over the unmatched sells
RECURSIVE RefundSells(_, _, _)
RefundSells(m, i, sellCount) ==
    IF ~m.ok \/ i >= sellCount THEN m
    ELSE RefundSells(RefundOne(m, m.sellIds, i, "base"), i + 1, sellCount)

\* the callback up to the store of the settlement: decode, sort, match,
\* refund. decryptedArguments holds buyCount + sellCount (price, amount) pairs
Settle(decryptedArguments, buyCount, sellCount) ==
    LET buyPrices == [i \in 1..buyCount |-> decryptedArguments[i].price]
        buyAmounts == [i \in 1..buyCount |-> decryptedArguments[i].amount]
        sellPrices == [i \in 1..sellCount |-> decryptedArguments[buyCount + i].price]
        sellAmounts == [i \in 1..sellCount |-> decryptedArguments[buyCount + i].amount]
        b == _sortDescending(pendingBuyOrderIds, buyPrices, buyAmounts, buyCount)
        s == _sortAscending(pendingSellOrderIds, sellPrices, sellAmounts, sellCount)
        m0 == [ok |-> b.ok /\ s.ok, orders |-> orders,
               buyIds |-> b.ids, sellIds |-> s.ids,
               buyPrices |-> b.prices, buyAmounts |-> b.amounts,
               sellPrices |-> s.prices, sellAmounts |-> s.amounts,
               bi |-> 0, si |-> 0,
               custodyQuote |-> custodyQuote, custodyBase |-> custodyBase,
               log |-> <<>>, matchedIds |-> <<>>,
               totalMatchedVolume |-> 0, totalTrades |-> 0, clearingPrice |-> 0,
               trades |-> <<>>, path |-> <<>>]
        m1 == MatchLoop(m0, buyCount, sellCount)
        m2 == RefundBuys(m1, m1.bi, buyCount)
    IN  RefundSells(m2, m2.si, sellCount)

\* the Settlement with the number of trades stored as the matched volume
SettlementOfTradesAsVolume(m) ==
    [clearingPrice |-> m.clearingPrice, matchedVolume |-> m.totalTrades,
     totalTrades |-> m.totalTrades, matchedOrderIds |-> m.matchedIds]

\* the Settlement the callback stores (block.timestamp is not modelled)
SettlementOf(m) ==
    [clearingPrice |-> m.clearingPrice, matchedVolume |-> m.totalMatchedVolume,
     totalTrades |-> m.totalTrades, matchedOrderIds |-> m.matchedIds]

\* settlements[settlementId] = s
PutSettlement(settlementId, s) ==
    [id \in DOMAIN settlements \cup {settlementId} |->
        IF id = settlementId THEN s ELSE settlements[id]]

\* Commit without the reset of the two deposit totals
CommitKeepsTotals(m, settlementId) ==
    /\ orders' = m.orders
    /\ custodyQuote' = m.custodyQuote
    /\ custodyBase' = m.custodyBase
    /\ settlements' = PutSettlement(settlementId, SettlementOf(m))
    /\ pendingBuyOrderIds' = <<>>
    /\ pendingSellOrderIds' = <<>>
    /\ totalPendingBuys' = 0
    /\ totalPendingSells' = 0
    /\ isMatching' = FALSE
    /\ transfers' = m.log
    /\ UNCHANGED <<nextOrderId, nextSettlementId, totalBuyDeposits, totalSellDeposits>>

\* the state a callback that does not revert leaves, m being what Settle
\* computed
Commit(m, settlementId) ==
    /\ orders' = m.orders
    /\ custodyQuote' = m.custodyQuote
    /\ custodyBase' = m.custodyBase
    /\ settlements' = PutSettlement(settlementId, SettlementOf(m))
    /\ pendingBuyOrderIds' = <<>>
    /\ pendingSellOrderIds' = <<>>
    /\ totalPendingBuys' = 0
    /\ totalPendingSells' = 0
    /\ totalBuyDeposits' = 0
    /\ totalSellDeposits' = 0
    /\ isMatching' = FALSE
    /\ transfers' = m.log
    /\ UNCHANGED <<nextOrderId, nextSettlementId>>

\* onDecrypt on a chain that keeps what a reverting callback wrote before
\* the statement that reverted
onDecryptNoRollback(decryptedArguments, buyCount, sellCount, settlementId) ==
    LET m == Settle(decryptedArguments, buyCount, sellCount)
    IN  IF m.ok
        THEN Commit(m, settlementId)
        ELSE /\ orders' = m.orders
             /\ custodyQuote' = m.custodyQuote
             /\ custodyBase' = m.custodyBase
             /\ transfers' = m.log
             /\ UNCHANGED <<nextOrderId, pendingBuyOrderIds, pendingSellOrderIds,
                            nextSettlementId, settlements, totalPendingBuys,
                            totalPendingSells, totalBuyDeposits, totalSellDeposits,
                            isMatching>>

\* what the chain keeps of a callback: everything it wrote when it ran to
\* its end, nothing when it reverted
onDecrypt(decryptedArguments, buyCount, sellCount, settlementId) ==
    LET m == Settle(decryptedArguments, buyCount, sellCount)
    IN  IF m.ok
        THEN Commit(m, settlementId)
        ELSE /\ UNCHANGED contractVars
             /\ transfers' = <<>>

\* the plaintexts the oracle hands to the callback of conditional transaction c
Decrypted(c) == [i \in 1..Len(c.encryptedArgs) |-> Decrypt(c.encryptedArgs[i])]

\* whether the callback of c would run to its end in the current state
Completes(c) == Settle(Decrypted(c), c.buyCount, c.sellCount).ok

\* the oracle calls back conditional transaction c, once
Deliver(c) ==
    /\ c \in ctx
    /\ onDecrypt(Decrypted(c), c.buyCount, c.sellCount, c.settlementId)
    /\ ctx' = ctx \ {c}
    /\ settled' = IF Completes(c) THEN settled \cup {c} ELSE settled

Payloads == {Sealed(p, a) : p \in Prices, a \in Amounts} \cup {EmptyPayload}

SubmitBuy ==
    /\ nextOrderId < MaxOrders
    /\ \E sender \in Traders, payload \in Payloads, deposit \in 0..MaxDeposit :
           submitBuyOrder(sender, payload, deposit)

SubmitSell ==
    /\ nextOrderId < MaxOrders
    /\ \E sender \in Traders, payload \in Payloads, deposit \in 0..MaxDeposit :
           submitSellOrder(sender, payload, deposit)

Cancelled == {id \in OrderIds : orders[id].status = "CANCELLED"}

Cancel ==
    /\ Cardinality(Cancelled) < MaxCancels
    /\ \E sender \in Traders, id \in 0..MaxOrders : cancelOrder(sender, id)

Trigger ==
    /\ nextSettlementId < MaxRounds
    /\ \E paid \in BOOLEAN : triggerMatch(paid)

Callback == \E c \in ctx : Deliver(c)

Next ==
    \/ SubmitBuy
    \/ SubmitSell
    \/ Cancel
    \/ Trigger
    \/ Callback

Spec == Init /\ [][Next]_vars

(***************************************************************************)
(* SpecDeep: more orders and a second round, from fewer inputs. One        *)
(* trader submits well-formed orders, each with the deposit MaxDeposit,    *)
(* which covers every quantity and every cost the payloads can ask for;    *)
(* nobody cancels.                                                         *)
(***************************************************************************)
DeepPayloads == {Sealed(p, a) : p \in Prices, a \in Amounts}

DeepSubmitBuy ==
    /\ nextOrderId < MaxOrdersDeep
    /\ \E payload \in DeepPayloads : submitBuyOrder(1, payload, MaxDeposit)

DeepSubmitSell ==
    /\ nextOrderId < MaxOrdersDeep
    /\ \E payload \in DeepPayloads : submitSellOrder(1, payload, MaxDeposit)

NextDeep ==
    \/ DeepSubmitBuy
    \/ DeepSubmitSell
    \/ Trigger
    \/ Callback

SpecDeep == Init /\ [][NextDeep]_vars

(***************************************************************************)
(* SpecReplay: SpecDeep with a caller that calls onDecrypt again with the  *)
(* arguments of a round already settled (onDecrypt is external and tests   *)
(* neither its caller nor the round id). A replay that reverts is no step. *)
(***************************************************************************)
Replay(c) ==
    /\ c \in settled
    /\ Completes(c)
    /\ onDecrypt(Decrypted(c), c.buyCount, c.sellCount, c.settlementId)
    /\ UNCHANGED <<ctx, settled>>

ReplayCallback == \E c \in settled : Replay(c)

NextReplay ==
    \/ DeepSubmitBuy
    \/ DeepSubmitSell
    \/ Trigger
    \/ Callback
    \/ ReplayCallback

SpecReplay == Init /\ [][NextReplay]_vars

(***************************************************************************)
(* SpecFull: a pool filled to the capacity of a round and beyond. One       *)
(* trader submits the same order, as a buy or as a sell, up to              *)
(* MaxOrdersFull times; nobody cancels.                                     *)
(***************************************************************************)
FullSubmitBuy ==
    /\ nextOrderId < MaxOrdersFull
    /\ submitBuyOrder(1, Sealed(1, 1), 1)

FullSubmitSell ==
    /\ nextOrderId < MaxOrdersFull
    /\ submitSellOrder(1, Sealed(1, 1), 1)

FullTrigger ==
    /\ nextSettlementId < MaxRoundsFull
    /\ \E paid \in BOOLEAN : triggerMatch(paid)

NextFull ==
    \/ FullSubmitBuy
    \/ FullSubmitSell
    \/ FullTrigger
    \/ Callback

SpecFull == Init /\ [][NextFull]_vars

(***************************************************************************)
(* SpecPriority: several orders at the same price. One trader submits buys  *)
(* priced 10 or 8 and sells priced 9 or 10, each for quantity 1 and with a  *)
(* deposit that covers it, and may cancel one of them.                      *)
(***************************************************************************)
PriorityBuys == {Sealed(10, 1), Sealed(8, 1)}
PrioritySells == {Sealed(9, 1), Sealed(10, 1)}

\* the deposit that covers a buy payload at its own limit price
BuyCover(payload) == Cost(Decrypt(payload).amount, Decrypt(payload).price)

\* the deposit that covers a sell payload
SellCover(payload) == Decrypt(payload).amount

PrioritySubmitBuy ==
    /\ nextOrderId < MaxOrdersDeep
    /\ \E payload \in PriorityBuys : submitBuyOrder(1, payload, BuyCover(payload))

PrioritySubmitSell ==
    /\ nextOrderId < MaxOrdersDeep
    /\ \E payload \in PrioritySells : submitSellOrder(1, payload, SellCover(payload))

PriorityCancel ==
    /\ Cardinality(Cancelled) < MaxCancels
    /\ \E id \in 0..MaxOrdersDeep : cancelOrder(1, id)

NextPriority ==
    \/ PrioritySubmitBuy
    \/ PrioritySubmitSell
    \/ PriorityCancel
    \/ FullTrigger
    \/ Callback

SpecPriority == Init /\ [][NextPriority]_vars

(***************************************************************************)
(* SpecExamples: the books of the worked examples. Trader 1 submits buys    *)
(* (price 5 or 12, quantity 10), trader 2 submits sells (price 7 or 10 for  *)
(* quantity 10, price 10 for quantity 4, price 11 for quantity 6), each     *)
(* with the deposit that covers it; one round is triggered.                 *)
(***************************************************************************)
ExampleBuys == {Sealed(5, 10), Sealed(12, 10)}
ExampleSells == {Sealed(7, 10), Sealed(10, 10), Sealed(10, 4), Sealed(11, 6)}

ExampleSubmitBuy ==
    /\ nextOrderId < MaxOrdersDeep
    /\ \E payload \in ExampleBuys : submitBuyOrder(1, payload, BuyCover(payload))

ExampleSubmitSell ==
    /\ nextOrderId < MaxOrdersDeep
    /\ \E payload \in ExampleSells : submitSellOrder(2, payload, SellCover(payload))

NextExamples ==
    \/ ExampleSubmitBuy
    \/ ExampleSubmitSell
    \/ FullTrigger
    \/ Callback

SpecExamples == Init /\ [][NextExamples]_vars

(***************************************************************************)
(* SpecZero: payloads whose decrypted quantity may be 0. One trader submits *)
(* orders priced 1..MaxPrice for a quantity of 0..MaxAmount, each with the  *)
(* deposit MaxDeposit; one round is triggered.                              *)
(***************************************************************************)
ZeroPayloads == {Sealed(p, a) : p \in Prices, a \in 0..MaxAmount}

ZeroSubmitBuy ==
    /\ nextOrderId < MaxOrdersZero
    /\ \E payload \in ZeroPayloads : submitBuyOrder(1, payload, MaxDeposit)

ZeroSubmitSell ==
    /\ nextOrderId < MaxOrdersZero
    /\ \E payload \in ZeroPayloads : submitSellOrder(1, payload, MaxDeposit)

NextZero ==
    \/ ZeroSubmitBuy
    \/ ZeroSubmitSell
    \/ FullTrigger
    \/ Callback

SpecZero == Init /\ [][NextZero]_vars

(***************************************************************************)
(* Statements about the contract.                                          *)
(***************************************************************************)
\* the step is the callback of c running to its end
Settles(c) == c \in ctx /\ c \notin ctx' /\ c \in settled'

\* the step is the callback of c reverting
Reverts(c) == c \in ctx /\ c \notin ctx' /\ c \notin settled'

\* the orders swept into the round of c
Swept(c) == Ids(c.buyIds) \cup Ids(c.sellIds)

RECURSIVE SumDeposits(_)
SumDeposits(ids) ==
    IF ids = <<>> THEN 0 ELSE orders[Head(ids)].deposit + SumDeposits(Tail(ids))

\* C1: conservation. A callback that completes takes out of custody, in each
\* asset, exactly the deposits of the orders swept into its round.
C1_Conservation ==
    [][\A c \in ctx : Settles(c) =>
          /\ custodyQuote - custodyQuote' = SumDeposits(c.buyIds)
          /\ custodyBase - custodyBase' = SumDeposits(c.sellIds)]_vars

\* C2: an order id is in exactly one pending array iff its status is PENDING.
C2_PendingIffInPool ==
    \A id \in OrderIds :
        (orders[id].status = "PENDING")
            <=> ((id \in Ids(pendingBuyOrderIds)) # (id \in Ids(pendingSellOrderIds)))

C4_CancelRefusedInRound ==
    \A c \in ctx : \A id \in Swept(c) : cancelRevert(orders[id].trader, id) # ""

\* the order records a step changes
Touched == {id \in OrderIds : orders'[id] # orders[id]}

\* onDecrypt pairs entry i of a pending array with decrypted argument i: the
\* pairing is each order's own payload when the arrays still hold, place by
\* place, the orders the payloads were read from
OwnPayloads(c) ==
    /\ Len(pendingBuyOrderIds) >= c.buyCount
    /\ Len(pendingSellOrderIds) >= c.sellCount
    /\ \A i \in 1..c.buyCount :
           Decrypt(orders[pendingBuyOrderIds[i]].encryptedOrder) = Decrypted(c)[i]
    /\ \A i \in 1..c.sellCount :
           Decrypt(orders[pendingSellOrderIds[i]].encryptedOrder)
               = Decrypted(c)[c.buyCount + i]

\* C5: a callback that completes resolves exactly the orders of the snapshot
\* taken by its trigger, each with the price and quantity of its own payload.
C5_SnapshotSettled ==
    [][\A c \in ctx : Settles(c) => Touched = Swept(c) /\ OwnPayloads(c)]_vars

\* C6: no double settlement. A second onDecrypt with the arguments of a round
\* already settled is rejected or changes nothing: no order, no balance, no
\* pending array, no aggregate.
C6_ReplayIsNoOp ==
    [][\A c \in settled : Replay(c) => UNCHANGED contractVars]_vars

\* C7: a settlement record, once written, never changes.
C7_RecordImmutable ==
    [][\A id \in DOMAIN settlements :
          id \in DOMAIN settlements' /\ settlements'[id] = settlements[id]]_vars

\* C8: right after a callback that completes, both pending arrays are empty,
\* the four aggregates are zero and isMatching is false.
C8_PoolReset ==
    [][\A c \in ctx : Settles(c) =>
          /\ pendingBuyOrderIds' = <<>>
          /\ pendingSellOrderIds' = <<>>
          /\ totalPendingBuys' = 0
          /\ totalPendingSells' = 0
          /\ totalBuyDeposits' = 0
          /\ totalSellDeposits' = 0
          /\ isMatching' = FALSE]_vars

\* a callback has just completed with transfers, and the pool it reset held
\* an order that was not in its round: that order is still PENDING
C8_Witness ==
    /\ transfers # <<>>
    /\ ~isMatching
    /\ pendingBuyOrderIds = <<>>
    /\ pendingSellOrderIds = <<>>
    /\ \E c \in settled : \E id \in OrderIds \ Swept(c) : orders[id].status = "PENDING"

Covered(c) ==
    /\ \A id \in Ids(c.buyIds) :
           LET d == Decrypt(orders[id].encryptedOrder)
           IN  (d.amount * d.price) \div PriceScale <= orders[id].deposit
    /\ \A id \in Ids(c.sellIds) :
           Decrypt(orders[id].encryptedOrder).amount <= orders[id].deposit

\* C10: the callback of a round whose orders are all covered by their
\* deposits completes: the round is settled, isMatching is false, the pool is
\* reset and the record is written.
C10_RoundCompletes ==
    [][\A c \in ctx : (c \notin ctx' /\ Covered(c)) =>
          /\ c \in settled'
          /\ ~isMatching'
          /\ c.settlementId \in DOMAIN settlements']_vars

\* the five values of OrderStatus
OrderStatus == {"PENDING", "MATCHED", "PARTIALLY_MATCHED", "CANCELLED", "REFUNDED"}

\* C11: order status is monotone. An order is created PENDING; a step changes
\* the status of an order only when it is PENDING; an order that is not
\* PENDING keeps its status for ever.
C11_StatusMonotone ==
    [][/\ \A id \in OrderIds :
              /\ orders'[id].status \in OrderStatus
              /\ orders[id].status # "PENDING" => orders'[id].status = orders[id].status
       /\ \A id \in (0..(nextOrderId' - 1)) \ OrderIds :
              orders'[id].status = "PENDING"]_vars

\* a round has matched two orders, and a cancel was accepted after it: the
\* cancel and every later step left the matched orders MATCHED
C11_Witness ==
    /\ \E id \in OrderIds : orders[id].status = "MATCHED"
    /\ \E id \in OrderIds : orders[id].status = "CANCELLED"
    /\ settled # {}
    /\ transfers # <<>>
    /\ transfers[1].why = "cancel"

\* C12: a submit with an empty payload fails with InvalidEncryptedOrder,
\* whatever its deposit; a submit with a payload and deposit 0 fails with
\* InvalidDeposit; a failing submit, buy or sell, is no step of the contract:
\* no order is created and nothing changes. Every order on the ledger
\* therefore has a payload and a deposit above zero.
C12_SubmitRejects ==
    /\ \A deposit \in 0..MaxDeposit :
           submitRevert(EmptyPayload, deposit) = "InvalidEncryptedOrder"
    /\ \A payload \in Payloads \ {EmptyPayload} :
           submitRevert(payload, 0) = "InvalidDeposit"
    /\ \A sender \in Traders, payload \in Payloads, deposit \in 0..MaxDeposit :
           (payload = EmptyPayload \/ deposit = 0) =>
               /\ ~ENABLED submitBuyOrder(sender, payload, deposit)
               /\ ~ENABLED submitSellOrder(sender, payload, deposit)
    /\ \A id \in OrderIds :
           orders[id].encryptedOrder # EmptyPayload /\ orders[id].deposit > 0

\* the pool holds a buy and a sell, custody holds their deposits, and a
\* further submit would be accepted if it were well-formed
C12_Witness ==
    /\ nextOrderId < MaxOrders
    /\ pendingBuyOrderIds # <<>>
    /\ pendingSellOrderIds # <<>>
    /\ custodyQuote > 0
    /\ custodyBase > 0
    /\ ENABLED submitBuyOrder(1, Sealed(1, 1), 1)

\* what a submit that goes through must leave on the given side: the deposit
\* added to that side's custody and deposit total, the count one higher, the
\* new id at the end of that side's pending array, the other side as it was
SubmitEffect(sender, isBuy, payload, deposit) ==
    /\ nextOrderId' = nextOrderId + 1
    /\ DOMAIN orders' = OrderIds \cup {nextOrderId}
    /\ \A id \in OrderIds : orders'[id] = orders[id]
    /\ orders'[nextOrderId].trader = sender
    /\ orders'[nextOrderId].isBuy = isBuy
    /\ orders'[nextOrderId].deposit = deposit
    /\ orders'[nextOrderId].encryptedOrder = payload
    /\ orders'[nextOrderId].status = "PENDING"
    /\ orders'[nextOrderId].settledPrice = 0
    /\ orders'[nextOrderId].settledAmount = 0
    /\ custodyQuote' = custodyQuote + (IF isBuy THEN deposit ELSE 0)
    /\ custodyBase' = custodyBase + (IF isBuy THEN 0 ELSE deposit)
    /\ pendingBuyOrderIds' = IF isBuy THEN pendingBuyOrderIds \o <<nextOrderId>>
                                      ELSE pendingBuyOrderIds
    /\ pendingSellOrderIds' = IF isBuy THEN pendingSellOrderIds
                                       ELSE pendingSellOrderIds \o <<nextOrderId>>
    /\ totalPendingBuys' = totalPendingBuys + (IF isBuy THEN 1 ELSE 0)
    /\ totalPendingSells' = totalPendingSells + (IF isBuy THEN 0 ELSE 1)
    /\ totalBuyDeposits' = totalBuyDeposits + (IF isBuy THEN deposit ELSE 0)
    /\ totalSellDeposits' = totalSellDeposits + (IF isBuy THEN 0 ELSE deposit)
    /\ UNCHANGED <<nextSettlementId, settlements, isMatching>>

\* C13: a submit that goes through moves exactly the deposit of the side's
\* asset into custody, creates a PENDING order of the caller with that side,
\* deposit and payload and zero settled price and amount, appends its id to
\* the end of that side's pending array and adds 1 to that side's count and
\* the deposit to that side's deposit total; the other side does not change.
C13_SubmitEffect ==
    [][\A sender \in Traders, payload \in Payloads, deposit \in 0..MaxDeposit :
          /\ submitBuyOrder(sender, payload, deposit)
                 => SubmitEffect(sender, TRUE, payload, deposit)
          /\ submitSellOrder(sender, payload, deposit)
                 => SubmitEffect(sender, FALSE, payload, deposit)]_vars

\* a sell was just submitted behind another pending sell, next to a pending
\* buy, with a deposit of 2 in the base custody
C13_Witness ==
    /\ Len(pendingSellOrderIds) = 2
    /\ pendingSellOrderIds[2] = nextOrderId - 1
    /\ pendingBuyOrderIds # <<>>
    /\ orders[nextOrderId - 1].deposit = 2
    /\ totalSellDeposits = custodyBase
    /\ transfers = <<>>

\* C14: cancelOrder fails with OrderNotFound for an id never assigned, with
\* NotOrderOwner when the caller is not the owner of the order, with
\* OrderNotPending when the caller is the owner and the status is not
\* PENDING, the tests being made in that order; a failing cancel is no step
\* of the contract: no status, balance, pending array or aggregate changes.
C14_CancelRejects ==
    \A sender \in Traders, id \in 0..MaxOrdersDeep :
        /\ id \notin OrderIds => cancelRevert(sender, id) = "OrderNotFound"
        /\ (id \in OrderIds /\ orders[id].trader # sender)
               => cancelRevert(sender, id) = "NotOrderOwner"
        /\ (id \in OrderIds /\ orders[id].trader = sender
                /\ orders[id].status # "PENDING")
               => cancelRevert(sender, id) = "OrderNotPending"
        /\ cancelRevert(sender, id) # "" => ~ENABLED cancelOrder(sender, id)

\* the ledger holds an order that is no longer PENDING and an order that
\* still is, there is an id not yet assigned, and each order has a trader
\* who is not its owner
C14_Witness ==
    /\ \E id \in OrderIds : orders[id].status = "MATCHED"
    /\ \E id \in OrderIds : orders[id].status = "PENDING"
    /\ nextOrderId <= MaxOrders
    /\ \A id \in OrderIds : \E sender \in Traders : orders[id].trader # sender

\* no id is twice in a pending array
NoDuplicates(arr) == \A i, j \in 1..Len(arr) : arr[i] = arr[j] => i = j

\* what a cancel of order id that goes through must leave
CancelEffect(sender, id) ==
    LET o == orders[id]
    IN  /\ orders' = [orders EXCEPT ![id].status = "CANCELLED"]
        /\ o.trader = sender
        /\ transfers' = <<Xfer(IF o.isBuy THEN "quote" ELSE "base", o.trader,
                               o.deposit, id, "cancel")>>
        /\ custodyQuote' = custodyQuote - (IF o.isBuy THEN o.deposit ELSE 0)
        /\ custodyBase' = custodyBase - (IF o.isBuy THEN 0 ELSE o.deposit)
        /\ Ids(pendingBuyOrderIds') = Ids(pendingBuyOrderIds) \ {id}
        /\ Ids(pendingSellOrderIds') = Ids(pendingSellOrderIds) \ {id}
        /\ NoDuplicates(pendingBuyOrderIds')
        /\ NoDuplicates(pendingSellOrderIds')
        /\ IF o.isBuy THEN pendingSellOrderIds' = pendingSellOrderIds
                      ELSE pendingBuyOrderIds' = pendingBuyOrderIds
        /\ totalPendingBuys' = totalPendingBuys - (IF o.isBuy THEN 1 ELSE 0)
        /\ totalPendingSells' = totalPendingSells - (IF o.isBuy THEN 0 ELSE 1)
        /\ totalBuyDeposits' = totalBuyDeposits - (IF o.isBuy THEN o.deposit ELSE 0)
        /\ totalSellDeposits' = totalSellDeposits - (IF o.isBuy THEN 0 ELSE o.deposit)
        /\ UNCHANGED <<nextOrderId, nextSettlementId, settlements, isMatching>>

\* C15: a cancel that goes through sets the order CANCELLED, pays exactly its
\* deposit, in its own asset, out of custody to its owner, leaves its side's
\* pending array holding every other id exactly once and not the cancelled
\* id (in whatever order), and takes 1 off that side's count and the deposit
\* off that side's deposit total; the other side does not change.
C15_CancelEffect ==
    [][\A sender \in Traders, id \in 0..MaxOrdersDeep :
          cancelOrder(sender, id) => CancelEffect(sender, id)]_vars

\* the first of three pending buys was just cancelled: the last one took its
\* place in the array
C15_Witness ==
    /\ pendingBuyOrderIds = <<2, 1>>
    /\ orders[0].status = "CANCELLED"
    /\ transfers = <<Xfer("quote", orders[0].trader, orders[0].deposit, 0, "cancel")>>
    /\ totalPendingBuys = 2

\* C16: triggerMatch fails with AlreadyMatching while a round is in flight,
\* whatever else holds; otherwise, when paid for, with NoPendingOrders if a
\* pending array is empty and with TooManyOrders if the two arrays hold more
\* than MAX_ORDERS_PER_MATCH orders; in every other state a paid trigger goes
\* through. A failing trigger is no step of the contract, and no round holds
\* more than MAX_ORDERS_PER_MATCH orders.
C16_TriggerRejects ==
    LET buyCount == Len(pendingBuyOrderIds)
        sellCount == Len(pendingSellOrderIds)
    IN  /\ isMatching => \A paid \in BOOLEAN : triggerRevert(paid) = "AlreadyMatching"
        /\ (~isMatching /\ (buyCount = 0 \/ sellCount = 0))
               => triggerRevert(TRUE) = "NoPendingOrders"
        /\ (~isMatching /\ buyCount > 0 /\ sellCount > 0
                /\ buyCount + sellCount > MAX_ORDERS_PER_MATCH)
               => triggerRevert(TRUE) = "TooManyOrders"
        /\ (~isMatching /\ buyCount > 0 /\ sellCount > 0
                /\ buyCount + sellCount <= MAX_ORDERS_PER_MATCH)
               => triggerRevert(TRUE) = "" /\ ENABLED triggerMatch(TRUE)
        /\ \A paid \in BOOLEAN : triggerRevert(paid) # "" => ~ENABLED triggerMatch(paid)
        /\ \A c \in ctx \cup settled : c.buyCount + c.sellCount <= MAX_ORDERS_PER_MATCH

\* no round is in flight and the pool holds buys and sells, one order more
\* than a round takes
C16_Witness ==
    /\ ~isMatching
    /\ Len(pendingBuyOrderIds) > 0
    /\ Len(pendingSellOrderIds) > 0
    /\ Len(pendingBuyOrderIds) + Len(pendingSellOrderIds) = MAX_ORDERS_PER_MATCH + 1

\* the pool at the callback of c is the snapshot its trigger took: nothing
\* was cancelled or submitted while the round was in flight
Intact(c) == pendingBuyOrderIds = c.buyIds /\ pendingSellOrderIds = c.sellIds

\* the decrypted price of order id
PriceOf(id) == Decrypt(orders[id].encryptedOrder).price

\* the place of the first entry of seq that is id, 0 when there is none
Position(seq, id) ==
    IF \E i \in 1..Len(seq) : seq[i] = id
    THEN CHOOSE i \in 1..Len(seq) : seq[i] = id /\ \A j \in 1..(i - 1) : seq[j] # id
    ELSE 0

\* among the orders ids of one side, an order is never matched before an
\* order of the same price submitted earlier (order ids are handed out in
\* the order of submission); matched is the round's list of matched ids
EarlierFirst(ids, matched) ==
    \A x, y \in Ids(ids) :
        (x < y /\ PriceOf(x) = PriceOf(y) /\ Position(matched, y) > 0)
            => (Position(matched, x) > 0 /\ Position(matched, x) < Position(matched, y))

\* C17: time priority. In a round settled from the pool its trigger swept,
\* of two orders of one side with the same decrypted price the one submitted
\* earlier is matched before the one submitted later, whatever submits and
\* cancels came before the trigger; with buys priced 10, 10, 8 submitted in
\* that order against sells priced 9, 10 the first trade pairs the first buy
\* with the sell priced 9.
C17_TimePriority ==
    [][\A c \in ctx : (Settles(c) /\ Intact(c)) =>
          LET matched == settlements'[c.settlementId].matchedOrderIds
          IN  /\ EarlierFirst(c.buyIds, matched)
              /\ EarlierFirst(c.sellIds, matched)
              /\ ([i \in 1..c.buyCount |-> PriceOf(c.buyIds[i])] = <<10, 10, 8>>
                      /\ [i \in 1..c.sellCount |-> PriceOf(c.sellIds[i])] = <<9, 10>>)
                     => (matched[1] = c.buyIds[1] /\ matched[2] = c.sellIds[1])]_vars

\* at the callback of c the pending arrays still begin with the orders its
\* trigger swept, in the same places: nothing was cancelled in between
SnapshotKept(c) ==
    /\ Len(pendingBuyOrderIds) >= c.buyCount
    /\ Len(pendingSellOrderIds) >= c.sellCount
    /\ SubSeq(pendingBuyOrderIds, 1, c.buyCount) = c.buyIds
    /\ SubSeq(pendingSellOrderIds, 1, c.sellCount) = c.sellIds

\* every decrypted buy price of c is strictly below every decrypted sell price
NonCrossing(c) ==
    \A i \in 1..c.buyCount, j \in 1..c.sellCount :
        Decrypted(c)[i].price < Decrypted(c)[c.buyCount + j].price

\* the refund of the whole deposit of order id to its owner
FullRefund(id) ==
    Xfer(IF orders[id].isBuy THEN "quote" ELSE "base", orders[id].trader,
         orders[id].deposit, id, "refund")

\* C18: a round whose highest buy price is strictly below its lowest sell
\* price (buy 5 against sell 7) settles with no trade: every order of the
\* round becomes REFUNDED and is paid exactly its whole deposit in its own
\* asset, by the only transfers the callback makes, and the settlement record
\* has trade count 0, matched volume 0, clearing price 0 and no matched id.
C18_NonCrossingRefunds ==
    [][\A c \in ctx : (Settles(c) /\ SnapshotKept(c) /\ NonCrossing(c)) =>
          /\ settlements'[c.settlementId] =
                 [clearingPrice |-> 0, matchedVolume |-> 0, totalTrades |-> 0,
                  matchedOrderIds |-> <<>>]
          /\ \A id \in Swept(c) :
                 /\ orders'[id] = [orders[id] EXCEPT !.status = "REFUNDED"]
                 /\ \E i \in 1..Len(transfers') : transfers'[i] = FullRefund(id)
          /\ Len(transfers') = Cardinality(Swept(c))]_vars

\* the round of buy (5, 10) against sell (7, 10) has settled: no trade, both
\* orders REFUNDED, two transfers
C18_Witness ==
    \E c \in settled :
        /\ Decrypted(c) = <<[price |-> 5, amount |-> 10], [price |-> 7, amount |-> 10]>>
        /\ settlements[c.settlementId].totalTrades = 0
        /\ \A id \in Swept(c) : orders[id].status = "REFUNDED"
        /\ Len(transfers) = 2
        /\ ~isMatching

\* the round of c is one buy (price 12, quantity 10) against one sell (price
\* 10, quantity 10) whose deposit is 10, the buy's deposit covering the cost
FullCrossBook(c) ==
    /\ Decrypted(c) = <<[price |-> 12, amount |-> 10], [price |-> 10, amount |-> 10]>>
    /\ c.buyCount = 1
    /\ c.sellCount = 1
    /\ orders[c.sellIds[1]].deposit = 10
    /\ orders[c.buyIds[1]].deposit >= Cost(10, 11)

\* C19: the callback of a round of one buy (price 12, quantity 10) against
\* one sell (price 10, quantity 10, deposit 10) completes with one trade at
\* clearing price 11 for quantity 10. The buyer is paid 10 base units and, in
\* quote, exactly deposit minus cost; the seller is paid exactly the cost in
\* quote and nothing in base; both orders end MATCHED at price 11 for 10.
C19_FullCross ==
    [][\A c \in ctx : (c \notin ctx' /\ SnapshotKept(c) /\ FullCrossBook(c)) =>
          LET buy == c.buyIds[1]
              sell == c.sellIds[1]
              cost == Cost(10, 11)
              fills == <<Xfer("base", orders[buy].trader, 10, sell, "fill"),
                         Xfer("quote", orders[sell].trader, cost, buy, "fill")>>
              excess == <<Xfer("quote", orders[buy].trader,
                               orders[buy].deposit - cost, buy, "excess")>>
          IN  /\ c \in settled'
              /\ settlements'[c.settlementId] =
                     [clearingPrice |-> 11, matchedVolume |-> 10, totalTrades |-> 1,
                      matchedOrderIds |-> <<buy, sell>>]
              /\ transfers' = IF orders[buy].deposit > cost THEN fills \o excess
                                                            ELSE fills
              /\ orders'[buy] = [orders[buy] EXCEPT !.status = "MATCHED",
                                     !.settledPrice = 11, !.settledAmount = 10]
              /\ orders'[sell] = [orders[sell] EXCEPT !.status = "MATCHED",
                                      !.settledPrice = 11, !.settledAmount = 10]]_vars

\* the round of buy (12, 10) against sell (10, 10) has settled with one
\* trade and three transfers: two fills and the buyer's excess
C19_Witness ==
    \E c \in settled :
        /\ FullCrossBook(c)
        /\ settlements[c.settlementId].totalTrades = 1
        /\ Len(transfers) = 3
        /\ transfers[3].why = "excess"
        /\ \A id \in Swept(c) : orders[id].status = "MATCHED"

\* the round of c is one buy (price 12, quantity 10) against the sells
\* (price 10, quantity 4) and (price 11, quantity 6), each order with a
\* deposit that covers it
PartialFillBook(c) ==
    /\ Decrypted(c) = <<[price |-> 12, amount |-> 10], [price |-> 10, amount |-> 4],
                        [price |-> 11, amount |-> 6]>>
    /\ c.buyCount = 1
    /\ c.sellCount = 2
    /\ orders[c.buyIds[1]].deposit >= Cost(4, 11) + Cost(6, 11)
    /\ orders[c.sellIds[1]].deposit = 4
    /\ orders[c.sellIds[2]].deposit = 6

\* the amounts of the base transfers of a log that fill an order, in order
RECURSIVE BaseFills(_)
BaseFills(log) ==
    IF log = <<>> THEN <<>>
    ELSE IF Head(log).token = "base" /\ Head(log).why = "fill"
    THEN <<Head(log).amount>> \o BaseFills(Tail(log))
    ELSE BaseFills(Tail(log))

\* C20: the callback of a round of one buy (price 12, quantity 10) against
\* the sells (price 10, quantity 4) and (price 11, quantity 6) completes with
\* exactly two trades, of 4 then of 6 base units, all paid to the buyer: the
\* record counts 2 trades for a volume of 10 and the three orders end MATCHED.
C20_PartialFill ==
    [][\A c \in ctx : (c \notin ctx' /\ SnapshotKept(c) /\ PartialFillBook(c)) =>
          /\ c \in settled'
          /\ settlements'[c.settlementId].totalTrades = 2
          /\ settlements'[c.settlementId].matchedVolume = 10
          /\ BaseFills(transfers') = <<4, 6>>
          /\ \A id \in Swept(c) : orders'[id].status = "MATCHED"]_vars

\* the callback of a round of that book never completes
C20_NeverCompletes == \A c \in settled : ~PartialFillBook(c)

\* C21: from an accepted trigger until its callback, every trigger is refused
\* with AlreadyMatching and the pool is frozen: no step taken while the round
\* is in flight changes a pending array or one of the four aggregates.
C21_FrozenPool ==
    [][\A c \in ctx : c \in ctx' =>
          /\ \A paid \in BOOLEAN : triggerRevert(paid) = "AlreadyMatching"
          /\ UNCHANGED <<pendingBuyOrderIds, pendingSellOrderIds, totalPendingBuys,
                         totalPendingSells, totalBuyDeposits, totalSellDeposits>>]_vars

\* the decrypted prices and quantities of the buys of c, then of its sells,
\* as onDecrypt decodes them
BuyPricesOf(c) == [i \in 1..c.buyCount |-> Decrypted(c)[i].price]
BuyAmountsOf(c) == [i \in 1..c.buyCount |-> Decrypted(c)[i].amount]
SellPricesOf(c) == [i \in 1..c.sellCount |-> Decrypted(c)[c.buyCount + i].price]
SellAmountsOf(c) == [i \in 1..c.sellCount |-> Decrypted(c)[c.buyCount + i].amount]

\* what the sorting step of the callback of c makes of the current pool
SortedBuys(c) ==
    _sortDescending(pendingBuyOrderIds, BuyPricesOf(c), BuyAmountsOf(c), c.buyCount)
SortedSells(c) ==
    _sortAscending(pendingSellOrderIds, SellPricesOf(c), SellAmountsOf(c), c.sellCount)

\* of two entries of equal price among the first len of the sorted r, the one
\* that comes first came first in the pending array before
StableIn(r, before, len) ==
    \A i, j \in 1..len :
        (i < j /\ r.prices[i] = r.prices[j])
            => Position(before, r.ids[i]) < Position(before, r.ids[j])

\* C22: the sorting step of a callback leaves the buy entries in
\* non-increasing and the sell entries in non-decreasing order of price, and
\* on each side entries of equal price in the order they had in the pending
\* array when the callback began.
C22_SortedStable ==
    [][\A c \in ctx : c \notin ctx' =>
          /\ SortedBuys(c).ok =>
                 /\ \A i, j \in 1..c.buyCount :
                        i < j => SortedBuys(c).prices[i] >= SortedBuys(c).prices[j]
                 /\ StableIn(SortedBuys(c), pendingBuyOrderIds, c.buyCount)
          /\ SortedSells(c).ok =>
                 /\ \A i, j \in 1..c.sellCount :
                        i < j => SortedSells(c).prices[i] <= SortedSells(c).prices[j]
                 /\ StableIn(SortedSells(c), pendingSellOrderIds, c.sellCount)]_vars

\* a round of four buys priced 1, 2, 1, 2 in the order of arrival has
\* settled, and its first trade went to the first buy priced 2
C22_Witness ==
    \E c \in settled :
        /\ BuyPricesOf(c) = <<1, 2, 1, 2>>
        /\ settlements[c.settlementId].totalTrades > 0
        /\ settlements[c.settlementId].matchedOrderIds[1] = c.buyIds[2]

\* what the callback of c computes in the current state, up to the store of
\* the settlement
Outcome(c) == Settle(Decrypted(c), c.buyCount, c.sellCount)

\* the prices the callback holds for the buy and for the sell of trade t
BuyPriceIn(m, t) == m.buyPrices[Position(m.buyIds, t.buy)]
SellPriceIn(m, t) == m.sellPrices[Position(m.sellIds, t.sell)]

After(m, k) ==
    IF k < Len(m.path) THEN [bi |-> m.path[k + 1].bi, si |-> m.path[k + 1].si]
    ELSE [bi |-> m.bi, si |-> m.si]

\* whether iteration e of the loop found prices that cross, and the smaller
\* of the two quantities it read
Crosses(e) == e.buyPrice >= e.sellPrice
MinAmount(e) == Min(e.buyAmount, e.sellAmount)

\* the number of trades recorded by the first k iterations
RECURSIVE TradesUpTo(_, _)
TradesUpTo(m, k) ==
    IF k = 0 THEN 0
    ELSE TradesUpTo(m, k - 1)
             + (IF Crosses(m.path[k]) /\ MinAmount(m.path[k]) > 0 THEN 1 ELSE 0)

\* C24: in a completed callback every trade is for the smaller of the two
\* quantities left at the pointers; an iteration that finds that to be 0
\* records no trade and advances the pointer of each side whose quantity
\* left is 0, and only that: it never moves past an order that has quantity
\* left.
C24_ZeroQuantityStep ==
    [][\A c \in ctx : Settles(c) =>
          LET m == Outcome(c)
          IN  \A k \in 1..Len(m.path) :
                  LET e == m.path[k]
                  IN  Crosses(e) =>
                          IF MinAmount(e) = 0
                          THEN /\ TradesUpTo(m, k) = TradesUpTo(m, k - 1)
                               /\ After(m, k).bi
                                      = e.bi + (IF e.buyAmount = 0 THEN 1 ELSE 0)
                               /\ After(m, k).si
                                      = e.si + (IF e.sellAmount = 0 THEN 1 ELSE 0)
                          ELSE m.trades[TradesUpTo(m, k)].matchAmount = MinAmount(e)]_vars

\* C25: the matching loop terminates, also on entries of quantity 0: every
\* iteration but the last moves at least one pointer forward and none
\* backward, and so does the last unless it stops the loop on the prices; a
\* callback of B buys and S sells runs at most B + S iterations and records
\* at most B + S - 1 trades.
C25_LoopTerminates ==
    [][\A c \in ctx : c \notin ctx' =>
          LET m == Outcome(c)
          IN  /\ \A k \in 1..Len(m.path) :
                     (k < Len(m.path) \/ (m.ok /\ Crosses(m.path[k]))) =>
                         /\ After(m, k).bi >= m.path[k].bi
                         /\ After(m, k).si >= m.path[k].si
                         /\ After(m, k).bi + After(m, k).si
                                > m.path[k].bi + m.path[k].si
              /\ Len(m.path) <= c.buyCount + c.sellCount
              /\ Len(m.trades) <= c.buyCount + c.sellCount - 1
              /\ c \in settled' =>
                     settlements'[c.settlementId].totalTrades
                         <= c.buyCount + c.sellCount - 1]_vars

\* a round with an entry of quantity 0 has settled with a trade
C25_Witness ==
    \E c \in settled :
        /\ \E i \in 1..Len(Decrypted(c)) : Decrypted(c)[i].amount = 0
        /\ settlements[c.settlementId].totalTrades > 0
        /\ c.buyCount + c.sellCount = MaxOrdersZero

\* C26: the clearing price in the record of a completed round is the
\* clearing price of the last trade the round recorded, and it is 0 exactly
\* when the round recorded no trade, also when the only pairs whose prices
\* cross had quantity 0.
C26_RecordedClearingPrice ==
    [][\A c \in ctx : Settles(c) =>
          LET m == Outcome(c)
              record == settlements'[c.settlementId]
          IN  /\ record.clearingPrice =
                     IF m.trades = <<>> THEN 0
                     ELSE m.trades[Len(m.trades)].clearingPrice
              /\ record.clearingPrice = 0 <=> record.totalTrades = 0]_vars

\* the transfers of a log that refund order id in the refund step
RefundsOf(log, id) ==
    {k \in 1..Len(log) : log[k].why = "refund" /\ log[k].order = id}

\* the orders that took part in a trade of the outcome m
Traded(m) == {m.trades[k].buy : k \in 1..Len(m.trades)}
                 \cup {m.trades[k].sell : k \in 1..Len(m.trades)}

\* what the refund step must make of the order id, an entry at or beyond the
\* final pointer of its side
RefundStep(m, id) ==
    IF orders[id].status = "PENDING" /\ id \notin Traded(m)
    THEN /\ orders'[id].status = "REFUNDED"
         /\ Cardinality(RefundsOf(transfers', id)) = 1
         /\ \A k \in RefundsOf(transfers', id) : transfers'[k] = FullRefund(id)
    ELSE /\ RefundsOf(transfers', id) = {}
         /\ orders'[id].status # "REFUNDED"

\* C27: in a completed round every order at or beyond the final buy or sell
\* pointer, in sorted order, that is still PENDING becomes REFUNDED and is
\* paid exactly its whole deposit in its own asset, once; an order there that
\* took part in a trade is not refunded by this step.
C27_RefundStep ==
    [][\A c \in ctx : Settles(c) =>
          LET m == Outcome(c)
          IN  /\ \A i \in (m.bi + 1)..c.buyCount : RefundStep(m, m.buyIds[i])
              /\ \A i \in (m.si + 1)..c.sellCount : RefundStep(m, m.sellIds[i])]_vars

\* a round has settled in which a buy for 2 units was filled for 1 and stayed
\* at the pointer, MATCHED and not refunded by the refund step, while another
\* order of the round was REFUNDED
C27_Witness ==
    \E c \in settled : \E x, y \in Swept(c) :
        /\ orders[x].status = "MATCHED"
        /\ orders[x].isBuy
        /\ Decrypt(orders[x].encryptedOrder).amount = 2
        /\ orders[x].settledAmount = 1
        /\ RefundsOf(transfers, x) = {}
        /\ orders[y].status = "REFUNDED"
        /\ RefundsOf(transfers, y) # {}

\* C28: a completed callback resolves every order swept into its round: each
\* is MATCHED if it took part in a trade of the round and REFUNDED if not,
\* and none is left PENDING, whatever its decrypted quantity or that of the
\* order it was paired with.
C28_EveryOrderResolved ==
    [][\A c \in ctx : (Settles(c) /\ SnapshotKept(c)) =>
          \A id \in Swept(c) :
              orders'[id].status =
                  IF id \in Traded(Outcome(c)) THEN "MATCHED" ELSE "REFUNDED"]_vars

\* the quote transfers of a log that pay a seller for a trade, in order
RECURSIVE QuoteFills(_)
QuoteFills(log) ==
    IF log = <<>> THEN <<>>
    ELSE IF Head(log).token = "quote" /\ Head(log).why = "fill"
    THEN <<Head(log)>> \o QuoteFills(Tail(log))
    ELSE QuoteFills(Tail(log))

\* the quote a log pays out on account of the buy order id
RECURSIVE QuotePaidFor(_, _)
QuotePaidFor(log, id) ==
    IF log = <<>> THEN 0
    ELSE (IF Head(log).token = "quote" /\ Head(log).order = id
          THEN Head(log).amount ELSE 0) + QuotePaidFor(Tail(log), id)

\* the trades of the outcome m in which the buy order id took part
TradesOfBuy(m, id) == {k \in 1..Len(m.trades) : m.trades[k].buy = id}

\* C29: for every trade of a completed callback the quote cost is
\* floor(quantity * clearing price / price scale), never more than quantity *
\* clearing price / scale; it is paid to the seller, and what the buyer's
\* deposit exceeds it by is refunded to the buyer. For a buy filled by one
\* trade whose cost its deposit covers, cost and refund add up to the deposit.
C29_CostAndExcess ==
    [][\A c \in ctx : Settles(c) =>
          LET m == Outcome(c)
              paid == QuoteFills(transfers')
          IN  /\ Len(paid) = Len(m.trades)
              /\ \A k \in 1..Len(m.trades) :
                     LET t == m.trades[k]
                         cost == (t.matchAmount * t.clearingPrice) \div PriceScale
                     IN  /\ paid[k] = Xfer("quote", orders[t.sell].trader, cost,
                                           t.buy, "fill")
                         /\ paid[k].amount * PriceScale <= t.matchAmount * t.clearingPrice
                         /\ orders[t.buy].deposit > cost =>
                                \E i \in 1..Len(transfers') :
                                    transfers'[i] = Xfer("quote", orders[t.buy].trader,
                                                         orders[t.buy].deposit - cost,
                                                         t.buy, "excess")
                         /\ (Cardinality(TradesOfBuy(m, t.buy)) = 1
                                 /\ cost <= orders[t.buy].deposit)
                                => QuotePaidFor(transfers', t.buy) = orders[t.buy].deposit]_vars

\* a round has settled with a trade of 1 unit at price 1: the cost, half a
\* unit of quote, was truncated to 0 and the buyer got the whole deposit back
C29_Witness ==
    \E c \in settled : \E b \in Ids(c.buyIds) :
        /\ orders[b].status = "MATCHED"
        /\ orders[b].settledAmount = 1
        /\ orders[b].settledPrice = 1
        /\ \E i \in 1..Len(transfers) :
               transfers[i] = Xfer("quote", orders[b].trader, orders[b].deposit,
                                   b, "excess")
        /\ \E i \in 1..Len(transfers) :
               transfers[i].why = "fill" /\ transfers[i].order = b
                   /\ transfers[i].amount = 0

\* the sum of the quantities of a list of trades
RECURSIVE VolumeOf(_)
VolumeOf(trades) ==
    IF trades = <<>> THEN 0 ELSE Head(trades).matchAmount + VolumeOf(Tail(trades))

\* the buy id and the sell id of each trade of a list, in order
RECURSIVE IdsOf(_)
IdsOf(trades) ==
    IF trades = <<>> THEN <<>>
    ELSE <<Head(trades).buy, Head(trades).sell>> \o IdsOf(Tail(trades))

\* C30: the record of a completed round counts the trades the round
\* recorded, its matched volume is the sum of their base quantities, and its
\* list of matched ids holds the buy id and the sell id of each trade in the
\* order the trades were made.
C30_RecordTotals ==
    [][\A c \in ctx : Settles(c) =>
          LET m == Outcome(c)
              record == settlements'[c.settlementId]
          IN  /\ record.totalTrades = Len(m.trades)
              /\ record.matchedVolume = VolumeOf(m.trades)
              /\ record.matchedOrderIds = IdsOf(m.trades)]_vars

\* a round has settled with two trades, one of 1 unit and one of 2, and four
\* matched ids
C30_Witness ==
    \E c \in settled :
        /\ settlements[c.settlementId].totalTrades = 2
        /\ settlements[c.settlementId].matchedVolume = 3
        /\ Len(settlements[c.settlementId].matchedOrderIds) = 4
        /\ \A id \in Ids(settlements[c.settlementId].matchedOrderIds) :
               orders[id].status = "MATCHED"

\* the base quantity the order id traded over the trades of a list
RECURSIVE TradedAmount(_, _)
TradedAmount(trades, id) ==
    IF trades = <<>> THEN 0
    ELSE (IF Head(trades).buy = id \/ Head(trades).sell = id
          THEN Head(trades).matchAmount ELSE 0) + TradedAmount(Tail(trades), id)

\* C31: after a completed round every order of the round that is MATCHED has
\* as its settled amount the whole base quantity it traded, over all its
\* trades of the round, and as its settled price the clearing price of a
\* trade it took part in.
C31_SettledFields ==
    [][\A c \in ctx : (Settles(c) /\ SnapshotKept(c)) =>
          LET m == Outcome(c)
          IN  \A id \in Swept(c) :
                  orders'[id].status = "MATCHED" =>
                      /\ orders'[id].settledAmount = TradedAmount(m.trades, id)
                      /\ \E k \in 1..Len(m.trades) :
                             /\ m.trades[k].buy = id \/ m.trades[k].sell = id
                             /\ orders'[id].settledPrice = m.trades[k].clearingPrice]_vars

\* C32: in every reachable state the four aggregates agree with the pool:
\* totalPendingBuys and totalPendingSells are the numbers of ids in the two
\* pending arrays, totalBuyDeposits and totalSellDeposits the sums of the
\* deposits of the orders in them.
C32_AggregatesAgree ==
    /\ totalPendingBuys = Len(pendingBuyOrderIds)
    /\ totalPendingSells = Len(pendingSellOrderIds)
    /\ totalBuyDeposits = SumDeposits(pendingBuyOrderIds)
    /\ totalSellDeposits = SumDeposits(pendingSellOrderIds)

\* the sum of the deposits of the orders of a set of ids
RECURSIVE DepositsOf(_)
DepositsOf(ids) ==
    IF ids = {} THEN 0
    ELSE LET id == CHOOSE x \in ids : TRUE
         IN  orders[id].deposit + DepositsOf(ids \ {id})

\* the PENDING orders funded in quote (the buys) or in base (the sells)
PendingFunded(isBuy) ==
    {id \in OrderIds : orders[id].status = "PENDING" /\ orders[id].isBuy = isBuy}

\* C33: custody is solvent. In every reachable state the custody of each
\* asset holds at least the deposits of all PENDING orders funded in it, so
\* that a round never spends the collateral of an order outside it.
C33_CustodySolvent ==
    /\ custodyQuote >= DepositsOf(PendingFunded(TRUE))
    /\ custodyBase >= DepositsOf(PendingFunded(FALSE))

\* what a log pays out of custody on account of the order id, in the asset of
\* its deposit: the fills it funds, the excess and the refund it gets back
RECURSIVE PaidOnAccount(_, _)
PaidOnAccount(log, id) ==
    IF log = <<>> THEN 0
    ELSE (IF Head(log).order = id THEN Head(log).amount ELSE 0)
             + PaidOnAccount(Tail(log), id)

\* C34: whatever price and quantity the payloads decrypt to, a completed
\* callback takes out of custody on account of each order of its round at
\* most the order's deposit: for a buy the quote paid to sellers and
\* refunded, for a sell the base delivered to buyers and refunded.
C34_WithinDeposit ==
    [][\A c \in ctx : (Settles(c) /\ SnapshotKept(c)) =>
          \A id \in Swept(c) :
              /\ \A k \in 1..Len(transfers') :
                     transfers'[k].order = id =>
                         transfers'[k].token = IF orders[id].isBuy THEN "quote" ELSE "base"
              /\ PaidOnAccount(transfers', id) <= orders[id].deposit]_vars

\* C35: deposits are always recoverable. In every reachable state with no
\* round in flight, a cancel by the owner of an order that is PENDING goes
\* through: it does not revert, on a counter going below zero or otherwise,
\* and it pays the owner the order's whole deposit.
C35_DepositRecoverable ==
    ~isMatching =>
        \A id \in OrderIds :
            orders[id].status = "PENDING" =>
                /\ cancelRevert(orders[id].trader, id) = ""
                /\ ENABLED cancelOrder(orders[id].trader, id)

\* the two read accessors that report the number of settlements
getSettlementCount == nextSettlementId
getAggregateStats ==
    [pendingBuys |-> totalPendingBuys, pendingSells |-> totalPendingSells,
     buyDeposits |-> totalBuyDeposits, sellDeposits |-> totalSellDeposits,
     totalSettlements |-> nextSettlementId]

\* C36: round ids are sequential and the settlement count the two accessors
\* report is the number of completed rounds: every id below it has a record
\* written by a callback that completed, and no two rounds carry the same id.
C36_SettlementCount ==
    /\ getSettlementCount = Cardinality(settled)
    /\ getAggregateStats.totalSettlements = Cardinality(settled)
    /\ \A id \in 0..(getSettlementCount - 1) :
           /\ id \in DOMAIN settlements
           /\ \E c \in settled : c.settlementId = id
    /\ \A c1, c2 \in ctx \cup settled : c1.settlementId = c2.settlementId => c1 = c2
    /\ \A c \in ctx \cup settled : c.settlementId < nextSettlementId

\* the fields of an order's record that say whose it is and what it holds
Identity(o) == <<o.trader, o.isBuy, o.deposit, o.encryptedOrder>>

\* C37: order ids come from a counter that only grows by 1 at a time. A
\* submit that goes through gives the new order the id nextOrderId, the
\* number of orders created before it (0 for the first), and adds 1 to the
\* counter; a submit that fails is no step and takes no id; only a submit
\* moves the counter; an id once given keeps its owner, side, deposit and
\* payload for ever; and every id below the counter has an owner other than
\* address(0), a deposit above 0 and a payload that is not empty.
C37_OrderIds ==
    [][/\ nextOrderId' \in {nextOrderId, nextOrderId + 1}
       /\ DOMAIN orders = 0..(nextOrderId - 1)
       /\ DOMAIN orders' = 0..(nextOrderId' - 1)
       /\ Cardinality(DOMAIN orders') = nextOrderId'
       /\ \A id \in OrderIds : Identity(orders'[id]) = Identity(orders[id])
       /\ \A id \in 0..(nextOrderId' - 1) :
              /\ orders'[id].trader \in Traders
              /\ orders'[id].trader # 0
              /\ orders'[id].deposit > 0
              /\ orders'[id].encryptedOrder # EmptyPayload
       /\ \A sender \in Traders, payload \in Payloads, deposit \in 0..MaxDeposit :
              /\ (submitBuyOrder(sender, payload, deposit)
                      \/ submitSellOrder(sender, payload, deposit))
                     => /\ nextOrderId' = nextOrderId + 1
                        /\ Identity(orders'[nextOrderId])[1] = sender
                        /\ Identity(orders'[nextOrderId])[3] = deposit
                        /\ Identity(orders'[nextOrderId])[4] = payload
              /\ submitRevert(payload, deposit) # ""
                     => /\ ~ENABLED submitBuyOrder(sender, payload, deposit)
                        /\ ~ENABLED submitSellOrder(sender, payload, deposit)
       /\ nextOrderId' # nextOrderId =>
              \E sender \in Traders, payload \in Payloads, deposit \in Deposits :
                  \/ submitBuyOrder(sender, payload, deposit)
                  \/ submitSellOrder(sender, payload, deposit)]_vars

\* three ids were handed out, to a buy, a sell and an order of another
\* trader, and a round has settled since
C37_Witness ==
    /\ nextOrderId = MaxOrders
    /\ orders[0].isBuy
    /\ ~orders[1].isBuy
    /\ orders[2].trader # orders[0].trader
    /\ settled # {}

\* C38: no order ever has the status PARTIALLY_MATCHED. An order a completed
\* round fills, for its whole decrypted quantity or for less, is MATCHED
\* after the round and is in neither pending array.
C38_NeverPartiallyMatched ==
    [][/\ \A id \in 0..(nextOrderId' - 1) : orders'[id].status # "PARTIALLY_MATCHED"
       /\ \A c \in ctx : Settles(c) =>
              \A id \in Traded(Outcome(c)) :
                  /\ orders'[id].status = "MATCHED"
                  /\ id \notin Ids(pendingBuyOrderIds')
                  /\ id \notin Ids(pendingSellOrderIds')]_vars

\* a round has settled with one trade of 1 unit that filled half of a sell
\* for 2 units: the sell is MATCHED and the pool is empty
C38_Witness ==
    \E c \in settled : \E s \in Ids(c.sellIds) :
        /\ settlements[c.settlementId].totalTrades = 1
        /\ settlements[c.settlementId].matchedVolume = 1
        /\ Decrypt(orders[s].encryptedOrder).amount = 2
        /\ orders[s].status = "MATCHED"
        /\ orders[s].settledAmount = 1
        /\ pendingBuyOrderIds = <<>>
        /\ pendingSellOrderIds = <<>>
        /\ ~isMatching

\* what a submit or a cancel on the side isBuy must leave alone: the other
\* side's pending array, count and deposit total, the records of the orders
\* in others, isMatching, the settlement records and nextSettlementId
Frame(isBuy, others) ==
    /\ IF isBuy
       THEN UNCHANGED <<pendingSellOrderIds, totalPendingSells, totalSellDeposits>>
       ELSE UNCHANGED <<pendingBuyOrderIds, totalPendingBuys, totalBuyDeposits>>
    /\ \A id \in others :
           /\ orders'[id].trader = orders[id].trader
           /\ orders'[id].isBuy = orders[id].isBuy
           /\ orders'[id].deposit = orders[id].deposit
           /\ orders'[id].status = orders[id].status
           /\ orders'[id].settledPrice = orders[id].settledPrice
           /\ orders'[id].settledAmount = orders[id].settledAmount
    /\ UNCHANGED <<isMatching, settlements, nextSettlementId>>

\* C39: frame of submit and cancel. A submit or a cancel on one side leaves
\* the other side's pending array, count and deposit total as they were,
\* leaves the owner, side, deposit, status and settled fields of every other
\* order as they were, and changes neither isMatching nor a settlement record
\* nor nextSettlementId.
C39_Frame ==
    [][/\ \A sender \in Traders, payload \in Payloads, deposit \in 0..MaxDeposit :
              /\ submitBuyOrder(sender, payload, deposit) => Frame(TRUE, OrderIds)
              /\ submitSellOrder(sender, payload, deposit) => Frame(FALSE, OrderIds)
       /\ \A sender \in Traders, id \in 0..MaxOrdersDeep :
              cancelOrder(sender, id) => Frame(orders[id].isBuy, OrderIds \ {id})]_vars

\* a buy was just cancelled while a round was in flight, next to a pending
\* buy and a pending sell: the round is still in flight
C39_Witness ==
    /\ isMatching
    /\ ctx # {}
    /\ transfers # <<>>
    /\ transfers[1].why = "cancel"
    /\ orders[transfers[1].order].isBuy
    /\ Len(pendingBuyOrderIds) = 1
    /\ Len(pendingSellOrderIds) = 1
    /\ totalPendingSells = 1

\* entry i of three arrays kept side by side
Triple(ids, prices, amounts, i) == <<ids[i], prices[i], amounts[i]>>

\* the sort that made r of the first len entries of ids, prices and amounts
\* moved whole (id, price, quantity) triples: each triple is as often among
\* the first len of r as it was before, and ids is as it was beyond len
Lockstep(r, ids, prices, amounts, len) ==
    /\ Len(r.ids) = Len(ids)
    /\ Len(r.prices) = len
    /\ Len(r.amounts) = len
    /\ \A i \in 1..len :
           Cardinality({k \in 1..len : Triple(r.ids, r.prices, r.amounts, k)
                                           = Triple(ids, prices, amounts, i)})
               = Cardinality({k \in 1..len : Triple(ids, prices, amounts, k)
                                                 = Triple(ids, prices, amounts, i)})
    /\ \A i \in (len + 1)..Len(ids) : r.ids[i] = ids[i]

\* C40: _sortDescending and _sortAscending move the id, the price and the
\* quantity of an entry together. After the sorting step of a callback the
\* first len (id, price, quantity) triples of each side are a permutation of
\* the triples before it, so every id keeps the price and quantity that sat
\* at its index, and the ids beyond len are untouched. (A side whose id array
\* holds fewer than len ids has no len triples to speak of.)
C40_SortLockstep ==
    [][\A c \in ctx : c \notin ctx' =>
          /\ (SortedBuys(c).ok /\ Len(pendingBuyOrderIds) >= c.buyCount) =>
                 Lockstep(SortedBuys(c), pendingBuyOrderIds, BuyPricesOf(c),
                          BuyAmountsOf(c), c.buyCount)
          /\ (SortedSells(c).ok /\ Len(pendingSellOrderIds) >= c.sellCount) =>
                 Lockstep(SortedSells(c), pendingSellOrderIds, SellPricesOf(c),
                          SellAmountsOf(c), c.sellCount)]_vars

\* a round has settled whose two sells arrived as (price 2, quantity 1) then
\* (price 1, quantity 2): the sort put the second first, its one trade filled
\* it for 2 units, and a sell submitted while the round was in flight, beyond
\* the two sorted entries, is still PENDING
C40_Witness ==
    \E c \in settled :
        /\ SellPricesOf(c) = <<2, 1>>
        /\ SellAmountsOf(c) = <<1, 2>>
        /\ settlements[c.settlementId].totalTrades = 1
        /\ settlements[c.settlementId].matchedOrderIds[2] = c.sellIds[2]
        /\ orders[c.sellIds[2]].settledAmount = 2
        /\ \E id \in OrderIds \ Swept(c) :
               /\ ~orders[id].isBuy
               /\ orders[id].status = "PENDING"
               /\ pendingSellOrderIds = <<>>
====
